---- MODULE Spec2Model ----
(***************************************************************************)
(* Training protocol of model_zoo/model_stylegan2.py (class StyleGAN2):    *)
(* construction, the per-batch optimize() state machine, the train() epoch *)
(* loop, save/load of the two networks and generate_imgs.                  *)
(*                                                                         *)
(* Abstractions.  A network's parameters are a version number that every   *)
(* optimizer step on that network increases.  A gradient buffer is the     *)
(* sequence of backward passes accumulated since it was last zeroed.  Loss *)
(* values are fixed-point numbers (Unit = 1.0) drawn from small sets,      *)
(* because they depend on the networks, the data and the random noise.     *)
(***************************************************************************)
EXTENDS Integers, Sequences, FiniteSets, TLC

\* ------------------------------------------------------------------ bounds
\* optimize() calls per behaviour (direct calls and calls made by train)
MaxCalls == 2
\* largest data source (batches per epoch) handed to train
MaxBatches == 2
\* largest regularization cadence tried
MaxCadence == 2

\* fixed point: 1.0 is Unit; 100^MaxCalls keeps MaxCalls successive updates
\* with decay 0.01 exact
Unit == 100 ^ MaxCalls

\* values a loss / a batch mean of path lengths can take (non-negative)
LossVals == {Unit, 2 * Unit}
\* in the runs that exercise checkpointing: one loss value, and a batch mean
\* of path lengths that may be zero
OneVal == {Unit}
PathLenVals == {0, Unit}

\* configurations tried by the constructor
Cadences == (-2) .. MaxCadence
BatchSizes == 0 .. 1
ValidCadences == 1 .. MaxCadence

ValidBatchSizes == {2}

Labels == {1}

\* self.latent_size
LatentSize == 512
\* probabilities and the draws of random.random() are multiples of 1/ProbUnit
ProbUnit == 10
Probs == 0 .. ProbUnit
Draws == 0 .. ProbUnit - 1
\* the default mixing = 0.9
DefaultMixing == (9 * ProbUnit) \div 10
\* batch sizes and shrink factors tried on the noise sampling
MaxBatchSize == 3
MaxShrink == 3
SamplingBatchSizes == (1 .. MaxBatchSize) \cup {16}
Shrinks == ((-2) .. MaxShrink) \cup {32}

NaN == "nan"

VARIABLES
  constructed,       \* "ok" or "error": did __init__ return an object
  g_reg_every, d_reg_every, batch_size,   \* self.* configuration
  pc,                \* position of the single thread of control
  caller,            \* who called optimize: "user" or "train"
  batch_idx,         \* optimize's argument
  G_params, D_params,        \* parameters of self.G / self.D
  G_grad, D_grad,            \* .grad buffers of self.G / self.D parameters
  optimizer_G, optimizer_D,  \* optimizer state: number of steps taken
  d_adv_loss, g_adv_loss,    \* locals of optimize
  r1_loss, path_loss, path_lengths, mean_path_length,  \* self.*
  losses,            \* value returned by the last optimize
  data_len, train_idx, running_loss,  \* train(): len(data_loader), loop
  train_ret, train_outcome,           \* what the last train returned / how it ended
  files,             \* log_dir: the artifacts present, file name -> parameters
  sample_z, gen_input,       \* fixed latent batch; last input of generate_imgs
  load_status,       \* outcome of the last load
  ncalls,            \* optimize calls so far (bounded by MaxCalls)
  path_batch_shrink, mixing, \* self.* configuration of the noise sampling
  sampler,           \* the last noise sampling run on its own, and how it ended
  noise_args, draw,  \* mixing_noise: its arguments, the random.random() value
  noise,             \* mixing_noise: the shapes of the batches returned
  path_batch_size,   \* local of backward_G_path
  value_range,       \* environment: the values the losses take in this run
  path_range,        \* environment: the values mean(path_lengths) takes
  \* ---- history (not program state)
  trace,             \* zero_grad/backward/step events of the current optimize
  fired,             \* [r1, path]: has the regularizer fired since construction
  last_fired,        \* values computed by the last firing of each regularizer
  prior_mean,        \* meanPathLength that the last path firing started from
  since,             \* [r1, path]: optimize calls since the regularizer last fired
  prev_load,         \* outcome of the load before the last one
  saved,             \* label -> the whole training state when save(label) ran
  report_sum, report_idx     \* sum / batch indices of reports in this epoch

vars == << constructed, g_reg_every, d_reg_every, batch_size, pc, caller,
           batch_idx, G_params, D_params, G_grad, D_grad, optimizer_G,
           optimizer_D, d_adv_loss, g_adv_loss, r1_loss, path_loss,
           path_lengths, mean_path_length, losses, data_len, train_idx,
           running_loss, train_ret, train_outcome, files, sample_z,
           gen_input, load_status, prev_load, saved,
           ncalls, path_batch_shrink, mixing, sampler, noise_args, draw,
           noise, path_batch_size, value_range, path_range, trace, fired, last_fired,
           prior_mean, since, report_sum, report_idx >>

samplingVars == << sampler, noise_args, draw, noise, path_batch_size >>
\* the configuration, and what only the sampling steps write
cfgVars == << constructed, g_reg_every, d_reg_every, batch_size, sample_z,
             path_batch_shrink, mixing, value_range, path_range,
             samplingVars >>
netVars == << G_params, D_params, G_grad, D_grad, optimizer_G, optimizer_D >>
regVars == << r1_loss, path_loss, path_lengths, mean_path_length >>
trainVars == << data_len, train_idx, running_loss, train_ret, train_outcome >>
histVars == << fired, last_fired, prior_mean, since >>
epochHist == << report_sum, report_idx >>
ioVars == << files, gen_input, load_status, prev_load, saved >>

\* ----------------------------------------------------------------- helpers
Zero6 == << 0, 0, 0, 0, 0, 0 >>
Add6(a, b) == [i \in 1..6 |-> a[i] + b[i]]

\* Python's a % b for a >= 0 and b # 0 (the result takes the sign of b)
PyMod(a, b) ==
  IF b > 0 THEN a % b
  ELSE LET r == a % (0 - b) IN IF r = 0 THEN 0 ELSE r + b

\* ------------------------------------------------------------ construction
\* __init__ validates nothing itself.  It fails only where an expression
\* fails: every/(every+1) divides by zero for every = -1, and for every = 0
\* the ratio is 0, beta1 = 0 ** 0 = 1, which Adam rejects (betas must lie in
\* [0, 1)).  Every other cadence, and every batch size, constructs an object.
RegRatioFails(every) == every + 1 = 0
AdamRejects(every) == every = 0

ConstructFails(g, d, bs) ==
  \/ RegRatioFails(g) \/ RegRatioFails(d)
  \/ AdamRejects(g) \/ AdamRejects(d)

\* mutant: optimizer_D built over self.G.parameters()
OptimizerDParams_G == "G"

\* the parameters each optimizer was built over (and so the ones it steps)
OptimizerGParams == "G"
OptimizerDParams == "D"

Construct(g, d, bs) ==
  /\ g_reg_every = g /\ d_reg_every = d /\ batch_size = bs
  /\ constructed = IF ConstructFails(g, d, bs) THEN "error" ELSE "ok"
  /\ pc = "idle" /\ caller = "user" /\ batch_idx = 0
  /\ G_params = 0 /\ D_params = 0
  /\ G_grad = << >> /\ D_grad = << >>
  /\ optimizer_G = 0 /\ optimizer_D = 0
  /\ d_adv_loss = 0 /\ g_adv_loss = 0
  /\ r1_loss = 0 /\ path_loss = 0 /\ path_lengths = 0 /\ mean_path_length = 0
  /\ losses = Zero6
  /\ data_len = 0 /\ train_idx = 0 /\ running_loss = Zero6
  /\ train_ret = << >> /\ train_outcome = "none"
  /\ sample_z = 1 /\ gen_input = << >>
  /\ load_status = "none"
  /\ prev_load = "none"
  /\ saved = << >>
  /\ ncalls = 0
  /\ sampler = "none" /\ noise_args = << >> /\ draw = 0 /\ noise = << >>
  /\ path_batch_size = 0
  /\ trace = << >>
  /\ fired = [r1 |-> FALSE, path |-> FALSE]
  /\ last_fired = [r1 |-> 0, path_loss |-> 0, path_lengths |-> 0, mean |-> 0]
  /\ prior_mean = 0
  /\ since = [r1 |-> 0, path |-> 0]
  /\ report_sum = Zero6 /\ report_idx = << >>

\* log_dir holds no artifact when the trainer is constructed
EmptyLogDir == files = << >>

\* the defaults of path_batch_shrink and mixing (lines 29-30)
DefaultSampling == path_batch_shrink = 2 /\ mixing = DefaultMixing

Init ==
  /\ \E g \in ValidCadences, d \in ValidCadences, bs \in ValidBatchSizes :
       Construct(g, d, bs)
  /\ DefaultSampling /\ EmptyLogDir
  /\ value_range = LossVals /\ path_range = LossVals

InitAnyConfig ==
  /\ \E g \in Cadences, d \in Cadences, bs \in BatchSizes : Construct(g, d, bs)
  /\ DefaultSampling /\ EmptyLogDir
  /\ value_range = LossVals /\ path_range = LossVals

InitCheckpoint ==
  /\ \E g \in ValidCadences, d \in ValidCadences, bs \in ValidBatchSizes :
       Construct(g, d, bs)
  /\ DefaultSampling /\ EmptyLogDir
  /\ value_range = OneVal /\ path_range = PathLenVals

\* labels of the artifacts an earlier run may have left in log_dir
ArtifactLabels == {1, 2}
\* their content: parameters that no step of this run produces
EarlierParams == 2 * MaxCalls + 1
ArtifactFiles ==
  {<< n, "net", l >> : n \in {"Generator", "Discriminator"},
                      l \in ArtifactLabels}

\* log_dir already holds any of the artifacts of ArtifactLabels
InitArtifacts ==
  /\ \E bs \in ValidBatchSizes : Construct(1, 1, bs)
  /\ DefaultSampling
  /\ \E present \in SUBSET ArtifactFiles :
       files = [f \in present |-> EarlierParams]
  /\ value_range = OneVal /\ path_range = OneVal

\* every batch size, shrink factor and mixing probability the constructor
\* stores (it checks none of them)
InitSampling ==
  /\ \E bs \in SamplingBatchSizes : Construct(1, 1, bs)
  /\ path_batch_shrink \in Shrinks /\ mixing \in Probs /\ EmptyLogDir
  /\ value_range = OneVal /\ path_range = OneVal

\* ----------------------------------------------------------------- optimize
\* torch optimizer: zero_grad clears, and step updates, exactly the
\* parameters the optimizer was constructed with.
ZeroGrad(net) ==
  /\ G_grad' = IF net = "G" THEN << >> ELSE G_grad
  /\ D_grad' = IF net = "D" THEN << >> ELSE D_grad

OptimizerStep(net) ==
  /\ G_params' = IF net = "G" THEN G_params + 1 ELSE G_params
  /\ D_params' = IF net = "D" THEN D_params + 1 ELSE D_params

\* the networks whose parameters a backward pass deposits gradient in: every
\* parameter the loss was computed through.  No pass detaches the other
\* network's output or switches requires_grad off (requires_grad() is never
\* called), so both adversarial losses reach both networks.
BackwardReaches(pass) ==
  CASE pass = "D_adv" -> {"G", "D"}
    [] pass = "D_r1" -> {"D"}
    [] pass = "G_adv" -> {"G", "D"}
    [] pass = "G_path" -> {"G"}

Backward(pass) ==
  /\ G_grad' = IF "G" \in BackwardReaches(pass) THEN Append(G_grad, pass)
                                                 ELSE G_grad
  /\ D_grad' = IF "D" \in BackwardReaches(pass) THEN Append(D_grad, pass)
                                                 ELSE D_grad

\* mutant: the path pass tested against the discriminator's cadence
FiresPath_UsesD(b) == PyMod(b, d_reg_every) = 0

FiresR1(b) == PyMod(b, d_reg_every) = 0
FiresPath(b) == PyMod(b, g_reg_every) = 0

\* mutant: the running mean restarted from 0 at every firing
PathMean_NoPrior(prior, m) == m \div 100

\* path_mean of backward_G_path: prior + decay * (mean - prior), decay = 0.01
PathMean(prior, m) == prior + (m - prior) \div 100

Ev(kind, what) == << kind, what >>

\* entry of optimize(batch_idx, data), called directly
OptimizeCall(b) ==
  /\ constructed = "ok" /\ pc = "idle" /\ ncalls < MaxCalls
  /\ pc' = "D_zero_grad" /\ caller' = "user" /\ batch_idx' = b
  /\ ncalls' = ncalls + 1 /\ trace' = << >>
  /\ report_sum' = Zero6 /\ report_idx' = << >>
  /\ since' = [r1 |-> since.r1 + 1, path |-> since.path + 1]
  /\ UNCHANGED << cfgVars, netVars, regVars, d_adv_loss, g_adv_loss, losses,
                  trainVars, ioVars, fired, last_fired, prior_mean >>

\* the frame of one statement of optimize
OptFrame ==
  UNCHANGED << cfgVars, caller, batch_idx, losses, trainVars, ioVars, ncalls,
               epochHist >>

\* line 187
D_ZeroGrad ==
  /\ pc = "D_zero_grad" /\ pc' = "D_adv_backward"
  /\ ZeroGrad(OptimizerDParams)
  /\ trace' = Append(trace, Ev("zero_grad", OptimizerDParams))
  /\ UNCHANGED << G_params, D_params, optimizer_G, optimizer_D, regVars,
                  d_adv_loss, g_adv_loss, histVars >>
  /\ OptFrame

\* lines 188-194
D_AdvBackward ==
  /\ pc = "D_adv_backward" /\ pc' = "D_adv_step"
  /\ \E l \in value_range : d_adv_loss' = l
  /\ Backward("D_adv")
  /\ trace' = Append(trace, Ev("backward", "D_adv"))
  /\ UNCHANGED << G_params, D_params, optimizer_G, optimizer_D, regVars,
                  g_adv_loss, histVars >>
  /\ OptFrame

\* mutant: the discriminator's adversarial step left out
D_AdvStep_NoStep ==
  /\ pc = "D_adv_step" /\ pc' = "r1_if"
  /\ UNCHANGED << netVars, regVars, d_adv_loss, g_adv_loss, trace, histVars >>
  /\ OptFrame

\* line 195
D_AdvStep ==
  /\ pc = "D_adv_step" /\ pc' = "r1_if"
  /\ OptimizerStep(OptimizerDParams)
  /\ optimizer_D' = optimizer_D + 1
  /\ trace' = Append(trace, Ev("step", OptimizerDParams))
  /\ UNCHANGED << G_grad, D_grad, optimizer_G, regVars, d_adv_loss,
                  g_adv_loss, histVars >>
  /\ OptFrame

\* line 198
R1_If ==
  /\ pc = "r1_if"
  /\ pc' = IF FiresR1(batch_idx) THEN "r1_zero_grad" ELSE "G_zero_grad"
  /\ UNCHANGED << netVars, regVars, d_adv_loss, g_adv_loss, trace, histVars >>
  /\ OptFrame

\* line 199
R1_ZeroGrad ==
  /\ pc = "r1_zero_grad" /\ pc' = "r1_backward"
  /\ ZeroGrad(OptimizerDParams)
  /\ trace' = Append(trace, Ev("zero_grad", OptimizerDParams))
  /\ UNCHANGED << G_params, D_params, optimizer_G, optimizer_D, regVars,
                  d_adv_loss, g_adv_loss, histVars >>
  /\ OptFrame

\* lines 200-204
R1_Backward ==
  /\ pc = "r1_backward" /\ pc' = "r1_step"
  /\ \E l \in value_range :
       /\ r1_loss' = l
       /\ last_fired' = [last_fired EXCEPT !.r1 = l]
  /\ fired' = [fired EXCEPT !.r1 = TRUE]
  /\ since' = [since EXCEPT !.r1 = 0]
  /\ Backward("D_r1")
  /\ trace' = Append(trace, Ev("backward", "D_r1"))
  /\ UNCHANGED << G_params, D_params, optimizer_G, optimizer_D, path_loss,
                  path_lengths, mean_path_length, d_adv_loss, g_adv_loss,
                  prior_mean >>
  /\ OptFrame

\* line 205
R1_Step ==
  /\ pc = "r1_step" /\ pc' = "G_zero_grad"
  /\ OptimizerStep(OptimizerDParams)
  /\ optimizer_D' = optimizer_D + 1
  /\ trace' = Append(trace, Ev("step", OptimizerDParams))
  /\ UNCHANGED << G_grad, D_grad, optimizer_G, regVars, d_adv_loss,
                  g_adv_loss, histVars >>
  /\ OptFrame

\* mutant: the generator's gradients not zeroed before its adversarial pass
G_ZeroGrad_Skipped ==
  /\ pc = "G_zero_grad" /\ pc' = "G_adv_backward"
  /\ trace' = Append(trace, Ev("zero_grad", OptimizerGParams))
  /\ UNCHANGED << netVars, regVars, d_adv_loss, g_adv_loss, histVars >>
  /\ OptFrame

\* line 208
G_ZeroGrad ==
  /\ pc = "G_zero_grad" /\ pc' = "G_adv_backward"
  /\ ZeroGrad(OptimizerGParams)
  /\ trace' = Append(trace, Ev("zero_grad", OptimizerGParams))
  /\ UNCHANGED << G_params, D_params, optimizer_G, optimizer_D, regVars,
                  d_adv_loss, g_adv_loss, histVars >>
  /\ OptFrame

\* lines 209-214
G_AdvBackward ==
  /\ pc = "G_adv_backward" /\ pc' = "G_adv_step"
  /\ \E l \in value_range : g_adv_loss' = l
  /\ Backward("G_adv")
  /\ trace' = Append(trace, Ev("backward", "G_adv"))
  /\ UNCHANGED << G_params, D_params, optimizer_G, optimizer_D, regVars,
                  d_adv_loss, histVars >>
  /\ OptFrame

\* line 215
G_AdvStep ==
  /\ pc = "G_adv_step" /\ pc' = "path_if"
  /\ OptimizerStep(OptimizerGParams)
  /\ optimizer_G' = optimizer_G + 1
  /\ trace' = Append(trace, Ev("step", OptimizerGParams))
  /\ UNCHANGED << G_grad, D_grad, optimizer_D, regVars, d_adv_loss,
                  g_adv_loss, histVars >>
  /\ OptFrame

\* line 218
Path_If ==
  /\ pc = "path_if"
  /\ pc' = IF FiresPath(batch_idx) THEN "path_zero_grad" ELSE "losses"
  /\ UNCHANGED << netVars, regVars, d_adv_loss, g_adv_loss, trace, histVars >>
  /\ OptFrame

\* line 219
Path_ZeroGrad ==
  /\ pc = "path_zero_grad" /\ pc' = "path_backward"
  /\ ZeroGrad(OptimizerGParams)
  /\ trace' = Append(trace, Ev("zero_grad", OptimizerGParams))
  /\ UNCHANGED << G_params, D_params, optimizer_G, optimizer_D, regVars,
                  d_adv_loss, g_adv_loss, histVars >>
  /\ OptFrame

\* lines 220-229 with backward_G_path (158-181)
Path_Backward ==
  /\ pc = "path_backward" /\ pc' = "path_step"
  /\ \E l \in value_range, m \in path_range :
       /\ path_loss' = l
       /\ path_lengths' = m
       /\ mean_path_length' = PathMean(mean_path_length, m)
       /\ last_fired' = [last_fired EXCEPT !.path_loss = l,
                                           !.path_lengths = m,
                                           !.mean = mean_path_length']
  /\ prior_mean' = last_fired.mean
  /\ fired' = [fired EXCEPT !.path = TRUE]
  /\ since' = [since EXCEPT !.path = 0]
  /\ Backward("G_path")
  /\ trace' = Append(trace, Ev("backward", "G_path"))
  /\ UNCHANGED << G_params, D_params, optimizer_G, optimizer_D, r1_loss,
                  d_adv_loss, g_adv_loss >>
  /\ OptFrame

\* line 230
Path_Step ==
  /\ pc = "path_step" /\ pc' = "losses"
  /\ OptimizerStep(OptimizerGParams)
  /\ optimizer_G' = optimizer_G + 1
  /\ trace' = Append(trace, Ev("step", OptimizerGParams))
  /\ UNCHANGED << G_grad, D_grad, optimizer_D, regVars, d_adv_loss,
                  g_adv_loss, histVars >>
  /\ OptFrame

\* mutant: a regularizer that did not fire reported as 0
Report_ZeroWhenSkipped ==
  << d_adv_loss, IF FiresR1(batch_idx) THEN r1_loss ELSE 0, g_adv_loss,
     IF FiresPath(batch_idx) THEN path_loss ELSE 0, path_lengths,
     mean_path_length >>

\* lines 234-241
Report ==
  << d_adv_loss, r1_loss, g_adv_loss, path_loss, path_lengths, mean_path_length >>

AssembleLosses ==
  /\ pc = "losses" /\ pc' = "opt_return"
  /\ losses' = Report
  /\ d_adv_loss' = 0 /\ g_adv_loss' = 0     \* locals, gone at the return
  /\ report_sum' = Add6(report_sum, losses')
  /\ report_idx' = Append(report_idx, batch_idx)
  /\ UNCHANGED << cfgVars, caller, batch_idx, netVars, regVars, trainVars,
                  ioVars, ncalls, trace, histVars >>

\* return to a direct caller
OptimizeReturn ==
  /\ pc = "opt_return" /\ caller = "user" /\ pc' = "idle"
  /\ UNCHANGED << cfgVars, caller, batch_idx, netVars, regVars, d_adv_loss,
                  g_adv_loss, losses, trainVars, ioVars, ncalls, trace,
                  histVars, epochHist >>

\* the statements of optimize
OptimizeBody ==
  \/ D_ZeroGrad \/ D_AdvBackward \/ D_AdvStep
  \/ R1_If \/ R1_ZeroGrad \/ R1_Backward \/ R1_Step
  \/ G_ZeroGrad \/ G_AdvBackward \/ G_AdvStep
  \/ Path_If \/ Path_ZeroGrad \/ Path_Backward \/ Path_Step
  \/ AssembleLosses

OptimizeStep == OptimizeBody \/ OptimizeReturn

\* -------------------------------------------------------------------- train
\* mutant: the running sum overwritten by the last report
Accumulate_Overwrite(acc, l) == l

\* running_loss = running_loss + losses (line 255)
Accumulate(acc, l) == Add6(acc, l)

\* running_loss /= len(data_loader) (line 267): a numpy array divided by a
\* Python int.  Each quotient is kept as << numerator, denominator >>; an
\* array of zeros divided by 0 is an array of nan (numpy warns, it does not
\* raise).
Divide(acc, n) ==
  IF n = 0 THEN [i \in 1..6 |-> NaN] ELSE [i \in 1..6 |-> << acc[i], n >>]

\* mutant: the path-length statistic reset at the start of every epoch
TrainCall_ResetsMean(n) ==
  /\ constructed = "ok" /\ pc = "idle" /\ ncalls + n <= MaxCalls
  /\ pc' = "train_for"
  /\ data_len' = n /\ train_idx' = 0 /\ running_loss' = Zero6
  /\ train_ret' = << >> /\ train_outcome' = "running"
  /\ report_sum' = Zero6 /\ report_idx' = << >>
  /\ mean_path_length' = 0
  /\ UNCHANGED << cfgVars, caller, batch_idx, netVars, r1_loss, path_loss,
                  path_lengths, d_adv_loss, g_adv_loss, losses, ioVars,
                  ncalls, trace, histVars >>

\* lines 243-245: train(data_loader) on a data source of n batches
TrainCall(n) ==
  /\ constructed = "ok" /\ pc = "idle" /\ ncalls + n <= MaxCalls
  /\ pc' = "train_for"
  /\ data_len' = n /\ train_idx' = 0 /\ running_loss' = Zero6
  /\ train_ret' = << >> /\ train_outcome' = "running"
  /\ report_sum' = Zero6 /\ report_idx' = << >>
  /\ UNCHANGED << cfgVars, caller, batch_idx, netVars, regVars, d_adv_loss,
                  g_adv_loss, losses, ioVars, ncalls, trace, histVars >>

\* lines 247-253: the next batch exists, optimize(batch_idx, data) is called
TrainNextBatch ==
  /\ pc = "train_for" /\ train_idx < data_len
  /\ pc' = "D_zero_grad" /\ caller' = "train" /\ batch_idx' = train_idx
  /\ ncalls' = ncalls + 1 /\ trace' = << >>
  /\ since' = [r1 |-> since.r1 + 1, path |-> since.path + 1]
  /\ UNCHANGED << cfgVars, netVars, regVars, d_adv_loss, g_adv_loss, losses,
                  trainVars, ioVars, fired, last_fired, prior_mean, epochHist >>

\* lines 253-265: optimize returned to train
TrainAccumulate ==
  /\ pc = "opt_return" /\ caller = "train" /\ pc' = "train_for"
  /\ running_loss' = Accumulate(running_loss, losses)
  /\ train_idx' = train_idx + 1
  /\ losses' = Zero6                        \* rebound by the next iteration
  /\ UNCHANGED << cfgVars, caller, batch_idx, netVars, regVars, d_adv_loss,
                  g_adv_loss, data_len, train_ret, train_outcome,
                  ioVars, ncalls, trace, histVars, epochHist >>

\* mutant: the loop left after the first batch
TrainReturn_Early ==
  /\ pc = "train_for" /\ (train_idx = data_len \/ train_idx >= 1) /\ pc' = "idle"
  /\ train_ret' = Divide(running_loss, data_len)
  /\ train_outcome' = "returned"
  /\ running_loss' = Zero6
  /\ UNCHANGED << cfgVars, caller, batch_idx, netVars, regVars, d_adv_loss,
                  g_adv_loss, losses, data_len, train_idx, ioVars, ncalls,
                  trace, histVars, epochHist >>

\* lines 267-268: the data source is exhausted
TrainReturn ==
  /\ pc = "train_for" /\ train_idx = data_len /\ pc' = "idle"
  /\ train_ret' = Divide(running_loss, data_len)
  /\ train_outcome' = "returned"
  /\ running_loss' = Zero6                  \* local, gone at the return
  /\ UNCHANGED << cfgVars, caller, batch_idx, netVars, regVars, d_adv_loss,
                  g_adv_loss, losses, data_len, train_idx, ioVars, ncalls,
                  trace, histVars, epochHist >>

\* ------------------------------------------------- save, load, generate_imgs
\* '{}_net_{}.pth'.format(network_label, epoch_label)
NetFile(network_label, epoch_label) == << network_label, "net", epoch_label >>
\* '{}.png'.format(epoch_label)
ImgFile(epoch_label) == << "png", epoch_label >>

Put(fs, name, content) ==
  [f \in DOMAIN fs \cup {name} |-> IF f = name THEN content ELSE fs[f]]

\* everything the trainer carries from one call to the next
TrainingState ==
  [G |-> G_params, D |-> D_params,
   optimizer_G |-> optimizer_G, optimizer_D |-> optimizer_D,
   mean_path_length |-> mean_path_length, path_lengths |-> path_lengths,
   r1_loss |-> r1_loss, path_loss |-> path_loss]

\* mutant: both artifacts written from the generator
SavedNetwork_BothG(network_label) == G_params

\* lines 290-291: the network save hands to save_network under each label;
\* save_network writes network.cpu().state_dict() and moves it back (276-277)
SavedNetwork(network_label) ==
  IF network_label = "Generator" THEN G_params ELSE D_params

\* lines 289-291 with save_network (270-279)
Save(epoch_label) ==
  /\ constructed = "ok" /\ pc = "idle"
  /\ files' = Put(Put(files, NetFile("Generator", epoch_label),
                      SavedNetwork("Generator")),
                  NetFile("Discriminator", epoch_label),
                  SavedNetwork("Discriminator"))
  /\ saved' = Put(saved, epoch_label, TrainingState)
  /\ UNCHANGED << cfgVars, pc, caller, batch_idx, netVars, regVars,
                  d_adv_loss, g_adv_loss, losses, trainVars, gen_input,
                  load_status, prev_load, ncalls, trace, histVars,
                  epochHist >>

\* mutant: a load that reports success once the generator was read
LoadOutcome_GeneratorOnly(g_found, d_found) ==
  IF g_found THEN "ok" ELSE "not_found"

\* torch.load (line 285) raises FileNotFoundError on a missing file
LoadOutcome(g_found, d_found) ==
  IF g_found /\ d_found THEN "ok" ELSE "not_found"

\* lines 293-295 with load_network (281-287): the generator is loaded first;
\* torch.load raises on a missing file and the rest of load is not run
Load(epoch_label) ==
  /\ constructed = "ok" /\ pc = "idle"
  /\ LET gf == NetFile("Generator", epoch_label)
         df == NetFile("Discriminator", epoch_label)
     IN  /\ G_params' = IF gf \in DOMAIN files THEN files[gf] ELSE G_params
         /\ D_params' = IF gf \in DOMAIN files /\ df \in DOMAIN files
                          THEN files[df] ELSE D_params
         /\ load_status' = LoadOutcome(gf \in DOMAIN files, df \in DOMAIN files)
  /\ prev_load' = load_status
  /\ UNCHANGED << cfgVars, pc, caller, batch_idx, G_grad, D_grad,
                  optimizer_G, optimizer_D, regVars, d_adv_loss, g_adv_loss,
                  losses, trainVars, files, gen_input, saved, ncalls, trace,
                  histVars, epochHist >>

\* mutant: a latent batch other than the fixed one
GenInput_Other == << sample_z + 1 >>

\* line 300: self.G([self.sample_z])
GenInput == << sample_z >>

\* lines 297-308
GenerateImgs(epoch_label) ==
  /\ constructed = "ok" /\ pc = "idle"
  /\ gen_input' = GenInput
  /\ files' = Put(files, ImgFile(epoch_label), << G_params, gen_input' >>)
  /\ UNCHANGED << cfgVars, pc, caller, batch_idx, netVars, regVars,
                  d_adv_loss, g_adv_loss, losses, trainVars, load_status,
                  prev_load, saved, ncalls, trace, histVars, epochHist >>

\* a new trainer of the same configuration constructed over the same log_dir
\* (lines 27-81): everything in memory starts afresh, the artifacts stay
Restart ==
  /\ constructed = "ok" /\ pc = "idle"
  /\ G_params' = 0 /\ D_params' = 0
  /\ G_grad' = << >> /\ D_grad' = << >>
  /\ optimizer_G' = 0 /\ optimizer_D' = 0
  /\ r1_loss' = 0 /\ path_loss' = 0 /\ path_lengths' = 0
  /\ mean_path_length' = 0
  /\ gen_input' = << >> /\ load_status' = "none" /\ prev_load' = "none"
  /\ trace' = << >>
  /\ fired' = [r1 |-> FALSE, path |-> FALSE]
  /\ last_fired' = [r1 |-> 0, path_loss |-> 0, path_lengths |-> 0, mean |-> 0]
  /\ prior_mean' = 0
  /\ since' = [r1 |-> 0, path |-> 0]
  /\ UNCHANGED << cfgVars, pc, caller, batch_idx, d_adv_loss, g_adv_loss,
                  losses, trainVars, files, saved, ncalls, epochHist >>

\* ----------------------------------------------------------- noise sampling
\* mutant: the draw compared with <= instead of <
MixingNoise_Le(bs, latent_size, prob, u) ==
  IF prob > 0 /\ u <= prob
    THEN << << bs, latent_size >>, << bs, latent_size >> >>
    ELSE << << bs, latent_size >> >>

\* lines 87-93: the shapes of the batches returned when random.random()
\* gives u; torch.randn(2, bs, n).unbind(0) is two tensors of shape (bs, n)
MixingNoise(bs, latent_size, prob, u) ==
  IF prob > 0 /\ u < prob
    THEN << << bs, latent_size >>, << bs, latent_size >> >>
    ELSE << << bs, latent_size >> >>

\* Python's a // b for a >= 0 and b # 0 (rounds towards minus infinity)
PyFloorDiv(a, b) ==
  IF b > 0 THEN a \div b ELSE 0 - ((a + (0 - b) - 1) \div (0 - b))

Max(a, b) == IF a >= b THEN a ELSE b

\* line 160
PathBatchSize(bs, shrink) == Max(1, PyFloorDiv(bs, shrink))

trainingVars ==
  << constructed, g_reg_every, d_reg_every, batch_size, sample_z,
     path_batch_shrink, mixing, value_range, path_range, pc, caller,
     batch_idx, netVars, regVars, d_adv_loss, g_adv_loss, losses, trainVars,
     ioVars, ncalls, trace, histVars, epochHist >>

\* mixing_noise(bs, self.latent_size, prob, device) on its own (one sampling
\* per run: the function keeps no state between calls)
MixingNoiseCall(bs, prob, u) ==
  /\ constructed = "ok" /\ pc = "idle" /\ sampler = "none"
  /\ sampler' = "mixing_noise"
  /\ noise_args' = << bs, LatentSize, prob >> /\ draw' = u
  /\ noise' = MixingNoise(bs, LatentSize, prob, u)
  /\ UNCHANGED << path_batch_size, trainingVars >>

\* lines 160-161: the noise of one path-regularization pass.  batch_size //
\* path_batch_shrink raises ZeroDivisionError for a shrink factor of 0, and
\* the pass ends there.
PathNoise(u) ==
  /\ constructed = "ok" /\ pc = "idle" /\ sampler = "none"
  /\ IF path_batch_shrink = 0
       THEN /\ sampler' = "ZeroDivisionError"
            /\ UNCHANGED << noise_args, draw, noise, path_batch_size >>
       ELSE /\ sampler' = "backward_G_path"
            /\ path_batch_size' = PathBatchSize(batch_size, path_batch_shrink)
            /\ noise_args' = << path_batch_size', LatentSize, mixing >>
            /\ draw' = u
            /\ noise' = MixingNoise(path_batch_size', LatentSize, mixing, u)
  /\ UNCHANGED trainingVars

\* ------------------------------------------------------------ specification
\* the training protocol: optimize and train
Next ==
  \/ \E b \in 0 .. MaxBatches - 1 : OptimizeCall(b)
  \/ OptimizeStep
  \/ \E n \in 0 .. MaxBatches : TrainCall(n)
  \/ TrainNextBatch \/ TrainAccumulate \/ TrainReturn

Spec == Init /\ [][Next]_vars

\* every configuration the constructor can be handed, valid or not
SpecAnyConfig == InitAnyConfig /\ [][Next]_vars

\* training interleaved with save, load and generate_imgs
NextCheckpoint ==
  \/ Next
  \/ \E l \in Labels : Save(l)
  \/ \E l \in Labels : Load(l)
  \/ \E l \in Labels : GenerateImgs(l)

SpecCheckpoint == InitCheckpoint /\ [][NextCheckpoint]_vars

\* optimize interleaved with save, load and the construction of a new trainer
NextRestart ==
  \/ \E b \in 0 .. MaxBatches - 1 : OptimizeCall(b)
  \/ OptimizeStep
  \/ \E l \in Labels : Save(l)
  \/ \E l \in Labels : Load(l)
  \/ Restart

SpecRestart == InitCheckpoint /\ [][NextRestart]_vars

\* optimize, save and load over a log_dir that may already hold artifacts
NextArtifacts ==
  \/ \E b \in 0 .. MaxBatches - 1 : OptimizeCall(b)
  \/ OptimizeStep
  \/ \E l \in ArtifactLabels : Save(l)
  \/ \E l \in ArtifactLabels : Load(l)

SpecArtifacts == InitArtifacts /\ [][NextArtifacts]_vars

\* the noise sampling on its own
NextSampling ==
  \/ \E bs \in SamplingBatchSizes, prob \in Probs, u \in Draws :
       MixingNoiseCall(bs, prob, u)
  \/ \E u \in Draws : PathNoise(u)

SpecSampling == InitSampling /\ [][NextSampling]_vars

\* epochs only: every optimize call is made by train
NextEpochs ==
  \/ \E n \in 0 .. MaxBatches : TrainCall(n)
  \/ TrainNextBatch \/ TrainAccumulate \/ TrainReturn
  \/ OptimizeBody

SpecEpochs == Init /\ [][NextEpochs]_vars

\* train is ordinary sequential code: the single thread of control always
\* takes its next step
SpecEpochsFair == InitCheckpoint /\ [][NextEpochs]_vars /\ WF_vars(NextEpochs)

\* ------------------------------------------------------------------- claims
IsPrefix(s, t) == Len(s) <= Len(t) /\ \A i \in 1 .. Len(s) : s[i] = t[i]

\* one phase: zero that network's gradients, one backward, one step of it
Phase(net, pass) ==
  << Ev("zero_grad", net), Ev("backward", pass), Ev("step", net) >>

Opt(b, phase) == IF b THEN phase ELSE << >>

\* the four shapes a call of optimize may have
PhaseOrders ==
  { Phase("D", "D_adv") \o Opt(r, Phase("D", "D_r1")) \o
    Phase("G", "G_adv") \o Opt(p, Phase("G", "G_path")) : r, p \in BOOLEAN }

AtReport == pc \in {"losses", "opt_return"}

\* the regularization pass (its backward plus the step after it) ran in the
\* current call
PassRan(net, pass) ==
  \E i \in 1 .. Len(trace) - 1 :
    trace[i] = Ev("backward", pass) /\ trace[i + 1] = Ev("step", net)

\* C1: in every call of optimize the events so far are a prefix of
\* D-adversarial, [D-R1], G-adversarial, [G-path], each phase being
\* zero_grad / backward / step of that phase's network, and at the end of the
\* call they are one of these orders in full.
C1_PhaseOrder ==
  /\ \E t \in PhaseOrders : IsPrefix(trace, t)
  /\ AtReport => trace \in PhaseOrders

C1_Witness == pc = "opt_return" /\ Len(trace) = 12

\* C2: at the end of optimize(b), the R1 pass has run iff b mod d_reg_every
\* = 0 and the path pass has run iff b mod g_reg_every = 0.
C2_Cadence ==
  AtReport =>
    /\ PassRan("D", "D_r1") <=> (batch_idx % d_reg_every = 0)
    /\ PassRan("G", "G_path") <=> (batch_idx % g_reg_every = 0)

\* one regularizer fires while the other does not
C2_Witness ==
  /\ pc = "opt_return"
  /\ PassRan("D", "D_r1") /\ ~PassRan("G", "G_path")

\* C3: on a batch where a regularizer does not fire (and has fired before),
\* the r1Loss / pathLoss of the report is the value its last firing computed,
\* and no backward pass of that regularizer runs.
C3_StaleReuse ==
  pc = "opt_return" =>
    /\ (batch_idx % d_reg_every # 0 /\ fired.r1) =>
         /\ losses[2] = last_fired.r1
         /\ \A i \in 1 .. Len(trace) : trace[i] # Ev("backward", "D_r1")
    /\ (batch_idx % g_reg_every # 0 /\ fired.path) =>
         /\ losses[4] = last_fired.path_loss
         /\ \A i \in 1 .. Len(trace) : trace[i] # Ev("backward", "G_path")

\* batch 1 of an epoch with both cadences 2: both values come from batch 0
C3_Witness ==
  /\ pc = "opt_return" /\ caller = "train" /\ batch_idx = 1
  /\ d_reg_every = 2 /\ g_reg_every = 2
  /\ fired.r1 /\ fired.path

\* C4: the stored meanPathLength changes only in the path-regularization
\* pass, and once non-zero it never returns to zero.
C4_MeanPathLengthFrame ==
  [][ /\ mean_path_length' # mean_path_length => pc = "path_backward"
      /\ mean_path_length # 0 => mean_path_length' # 0 ]_vars

\* training, a save, a successful load and a sample generation all happened
\* after the statistic was set
C4_Witness ==
  /\ mean_path_length # 0 /\ train_outcome = "returned" /\ ncalls = MaxCalls
  /\ load_status = "ok" /\ gen_input # << >>

\* C5: a step of optimizer_D (adversarial or R1) leaves the generator's
\* parameters as they were, and a step of optimizer_G (adversarial or path)
\* leaves the discriminator's parameters as they were.
C5_StepFrame ==
  [][ /\ pc \in {"D_adv_step", "r1_step"} => G_params' = G_params
      /\ pc \in {"G_adv_step", "path_step"} => D_params' = D_params ]_vars

C5_Witness == pc = "opt_return" /\ Len(trace) = 12 /\ G_params = 2 /\ D_params = 2

\* C6: no backward pass of one network's phase deposits gradient in the other
\* network's buffers, and no zero_grad clears the other network's buffers.
C6_OtherGradUntouched ==
  [][ /\ pc \in {"D_zero_grad", "D_adv_backward", "r1_zero_grad", "r1_backward"}
           => G_grad' = G_grad
      /\ pc \in {"G_zero_grad", "G_adv_backward", "path_zero_grad", "path_backward"}
           => D_grad' = D_grad ]_vars

\* C7: after a path pass that started from p (the value the previous firing
\* left, 0 at the first) with batch mean m, meanPathLength is
\* p + 0.01 * (m - p) = 0.99 * p + 0.01 * m, and the report of that batch
\* carries it.
C7_ExponentialMean ==
  LET p == prior_mean
      m == path_lengths
      new == p + (m - p) \div 100
  IN  /\ pc = "path_step" =>
           /\ (m - p) % 100 = 0 /\ p % 100 = 0 /\ m % 100 = 0
           /\ mean_path_length = new
           /\ mean_path_length = (p - p \div 100) + m \div 100
      /\ (pc = "opt_return" /\ PassRan("G", "G_path")) => losses[6] = new

\* a second firing: the prior value is not the initial 0
C7_Witness == pc = "opt_return" /\ PassRan("G", "G_path") /\ prior_mean # 0

\* C8: train on N >= 1 batches returns the elementwise sum of the N reports
\* optimize returned (for batch indices 0 .. N-1, in order) divided by N.
C8_EpochAverage ==
  (pc = "idle" /\ caller = "train" /\ train_outcome = "returned" /\ data_len >= 1) =>
    /\ report_idx = [i \in 1 .. data_len |-> i - 1]
    /\ train_ret = [i \in 1 .. 6 |-> << report_sum[i], data_len >>]

C8_Witness ==
  /\ pc = "idle" /\ caller = "train" /\ train_outcome = "returned"
  /\ data_len = 2 /\ report_sum[1] = 3 * Unit

\* C9: train on an empty data source never returns a report.
C9_EmptyTrainFails == ~(train_outcome = "returned" /\ data_len = 0)

\* C10: a configuration with a non-positive cadence or batch size yields no
\* trainer object, and optimize never runs with one.
C10_InvalidConfigRejected ==
  LET valid == g_reg_every > 0 /\ d_reg_every > 0 /\ batch_size > 0
  IN  /\ ~valid => constructed = "error"
      /\ pc # "idle" => valid

\* C17: in runs made of train calls only, a regularizer that has fired before
\* fires again exactly cadence batches after its last firing, also across
\* epoch boundaries.
C17_CadenceAcrossEpochs ==
  /\ (pc = "r1_zero_grad" /\ fired.r1) => since.r1 = d_reg_every
  /\ (pc = "path_zero_grad" /\ fired.path) => since.path = g_reg_every

SeqUpTo(n) == [i \in 1 .. n |-> i - 1]

\* C19: train calls optimize once per batch with indices 0, 1, ..., N-1 in
\* order, and a train call that has started returns its report.
C19_TrainRunsToExhaustion ==
  /\ [](pc = "train_for" => (train_idx <= data_len /\ report_idx = SeqUpTo(train_idx)))
  /\ []((pc = "idle" /\ train_outcome = "returned") =>
          (report_idx = SeqUpTo(data_len) /\ train_idx = data_len))
  /\ (train_outcome = "running") ~> (train_outcome = "returned")

C19_Witness ==
  /\ pc = "idle" /\ train_outcome = "returned" /\ data_len = 2
  /\ report_idx = << 0, 1 >>

\* C20: at every optimizer step the buffers of the network stepped hold the
\* gradient of exactly one backward pass, that of the current phase.
C20_OneBackwardPerStep ==
  /\ pc = "D_adv_step" => D_grad = << "D_adv" >>
  /\ pc = "r1_step" => D_grad = << "D_r1" >>
  /\ pc = "G_adv_step" => G_grad = << "G_adv" >>
  /\ pc = "path_step" => G_grad = << "G_path" >>

\* the second batch: the previous batch left gradient in both networks, and
\* this batch's discriminator pass left some in the generator
C20_Witness == pc = "G_adv_step" /\ ncalls = 2 /\ Len(D_grad) >= 2

\* C14: whatever batch size >= 1 and shrink factor the trainer was built
\* with, the path pass computes its internal batch size
\* max(1, floor(batch_size / path_batch_shrink)) without failing, the result
\* lies in 1 .. batch_size, and 16, 2 gives 8 and 16, 32 gives 1.
C14_PathBatchSize ==
  /\ sampler # "ZeroDivisionError"
  /\ sampler = "backward_G_path" =>
       /\ path_batch_size >= 1 /\ path_batch_size <= batch_size
       /\ noise_args[1] = path_batch_size
       /\ path_batch_shrink > 0 =>
            /\ path_batch_size * path_batch_shrink <= Max(batch_size, path_batch_shrink)
            /\ (path_batch_size + 1) * path_batch_shrink > batch_size
       /\ (batch_size = 16 /\ path_batch_shrink = 2) => path_batch_size = 8
       /\ (batch_size = 16 /\ path_batch_shrink = 32) => path_batch_size = 1

\* C15: mixing_noise returns one batch of shape (batch size, latent size) for
\* probability 0, two for probability 1, and for a probability in between two
\* exactly when the draw is below it.
C15_MixingNoise ==
  sampler = "mixing_noise" =>
    LET prob == noise_args[3] IN
    /\ Len(noise) \in {1, 2}
    /\ \A i \in 1 .. Len(noise) : noise[i] = << noise_args[1], LatentSize >>
    /\ prob = 0 => Len(noise) = 1
    /\ prob = ProbUnit => Len(noise) = 2
    /\ (0 < prob /\ prob < ProbUnit) => (Len(noise) = 2 <=> draw < prob)

\* a probability strictly between 0 and 1 with the draw just not below it
C15_Witness ==
  /\ sampler = "mixing_noise" /\ noise_args[3] = draw /\ draw > 0
  /\ Len(noise) = 1

\* C16: the latent batch of generate_imgs is the one drawn at construction:
\* no step changes it, generate_imgs passes exactly that one batch, and
\* generate_imgs changes no parameters, gradients, optimizer state or
\* path-regularization scalar.
C16_FixedLatentBatch ==
  [][/\ sample_z' = sample_z
     /\ \A l \in Labels :
          GenerateImgs(l) => /\ gen_input' = << sample_z >>
                             /\ Len(gen_input') = 1
                             /\ netVars' = netVars
                             /\ regVars' = regVars]_vars

\* generate_imgs ran after training changed the generator, and after a load
C16_Witness ==
  /\ gen_input = << sample_z >> /\ G_params > 0 /\ load_status = "ok"
  /\ \E l \in Labels :
       /\ ImgFile(l) \in DOMAIN files
       /\ files[ImgFile(l)] = << G_params, << sample_z >> >>

\* C11: a successful load(label) returns every component of the training
\* state (both networks' parameters, both optimizer states, the
\* path-regularization scalars) to its value when save(label) ran.
C11_WholeStateRestored ==
  [][\A l \in Labels :
       (Load(l) /\ load_status' = "ok" /\ l \in DOMAIN saved)
         => TrainingState' = saved[l]]_vars

\* C12: save leaves both networks' in-memory parameters unchanged, and a
\* successful load(label) - into a newly constructed trainer too - gives both
\* networks the parameters they had when save(label) ran.
C12_RoundTrip ==
  [][\A l \in Labels :
       /\ Save(l) => G_params' = G_params /\ D_params' = D_params
       /\ (Load(l) /\ load_status' = "ok" /\ l \in DOMAIN saved)
            => G_params' = saved[l].G /\ D_params' = saved[l].D]_vars

\* a new trainer (no optimizer step taken) holds, after load, the trained
\* parameters saved by the earlier one, and the two networks' differ
C12_Witness ==
  /\ load_status = "ok"
  /\ optimizer_G = 0 /\ optimizer_D = 0
  /\ G_params > 0 /\ D_params > 0 /\ G_params # D_params
  /\ 1 \in DOMAIN saved /\ G_params = saved[1].G /\ D_params = saved[1].D

HasArtifacts(l) ==
  /\ NetFile("Generator", l) \in DOMAIN files
  /\ NetFile("Discriminator", l) \in DOMAIN files

\* C13: load(label) succeeds when both artifacts of the label exist and
\* fails with not-found when either is absent; the failure ends that call
\* only: the trainer is idle again and a load of another label can succeed.
C13_LoadNotFound ==
  [][\A l \in ArtifactLabels :
       Load(l) => /\ HasArtifacts(l) => load_status' = "ok"
                  /\ ~HasArtifacts(l) => load_status' = "not_found"
                  /\ constructed' = "ok" /\ pc' = "idle"
                  /\ files' = files]_vars

\* a load of label 1 failed for the missing discriminator artifact and the
\* next load, of label 2 (whose artifacts an earlier run left), succeeded
C13_Witness ==
  /\ prev_load = "not_found" /\ load_status = "ok"
  /\ NetFile("Generator", 1) \in DOMAIN files
  /\ NetFile("Discriminator", 1) \notin DOMAIN files
  /\ HasArtifacts(2) /\ saved = << >>

\* C18: a load(label) that fails for an absent artifact leaves the
\* parameters of both networks as they were before the call.
C18_FailedLoadNoChange ==
  [][\A l \in ArtifactLabels :
       (Load(l) /\ load_status' = "not_found")
         => G_params' = G_params /\ D_params' = D_params]_vars
====
